---------------------------- MODULE Spec2Model ----------------------------
(***************************************************************************)
(* Model of the streaming server of yolo8/main.py.                         *)
(*                                                                         *)
(* main() builds ONE VideoProcessor and registers its bound method         *)
(* handle_connection as the handler of every connection, so the fields     *)
(* camera and is_streaming are shared by all connections.  The server is   *)
(* a single asyncio event loop: a step of the model is what one coroutine  *)
(* does between two suspension points (await websocket.send, the receive   *)
(* of the next message, await asyncio.sleep).                              *)
(*                                                                         *)
(* Init is the processor as __init__ leaves its two session fields         *)
(* (camera = None, is_streaming = False).  __init__ also names torch,      *)
(* which main.py does not import; the model takes the construction as      *)
(* having succeeded.  When a handler ends, the websockets server closes    *)
(* its connection, after which websocket.send raises ConnectionClosed.     *)
(*                                                                         *)
(* Tasks are kept as a bag: two stream_camera tasks at the same place,     *)
(* sending to the same connection, are interchangeable.                    *)
(*                                                                         *)
(* The second program, yolo8/lstm/collect_data.py, is modelled further     *)
(* down with variables of its own and the specification CollectSpec; each  *)
(* of the two specifications leaves the other program's variables as they  *)
(* are initially.                                                          *)
(***************************************************************************)
EXTENDS Integers, Sequences, FiniteSets, Bags, TLC

\* Bounds of the model.
NumConns == 2      \* connections accepted during a run
MaxTasks == 2      \* push-loop tasks alive at the same time

Conns == 1..NumConns

VARIABLES
    camera,        \* self.camera: "None", or the state of the VideoCapture held
    is_streaming,  \* self.is_streaming
    conn,          \* per connection: "init" (not accepted), "open", "closed"
    pc,            \* per connection handler: "init" (not called yet), "recv"
                   \* (suspended in websocket.send or waiting for the next
                   \* message: what follows a send that returns is the next
                   \* receive), "done" (returned or raised)
    task,          \* the bag of stream_camera tasks alive, each [pc, ws, stopped]:
                   \* pc is "sleeping" (waiting to be scheduled at the loop
                   \* test) or "sending" (suspended in websocket.send), ws is
                   \* the connection it sends to, and stopped records that a
                   \* stop command was handled while the task was alive
    ev,            \* what ran in the last step: the message dispatched, or
                   \* the task scheduled at its loop test
    effects        \* the calls made on the outside world in the last step

vars == <<camera, is_streaming, conn, pc, task, ev, effects>>

\* The state of DataCollector.collect_data (collect_data.py).
VARIABLES
    video,            \* self.video: "None", or the state of the VideoCapture:
                      \* "opened", "unopened" (isOpened() False), "released"
    cpc,              \* where collect_data is: "start", "loop", "finally"
                      \* (before save_data), "cleanup" (before cleanup),
                      \* "returned", "raised"
    pending,          \* the exception the finally block re-raises, or "none"
    total_frames,     \* total_frames, 0 until the video is opened
    feature_history,  \* self.feature_history: track id -> list of records
    prev_features,    \* prev_features: track id -> <<>> or <<record>>
    processed_frames, \* processed_frames
    clock,            \* the last value of time.time(), in ticks
    snapshot,         \* <<>> or <<the dict pickled by save_data>>
    calls_log,        \* history: the calls of save_data and cleanup, in order
    appended_at,      \* history: the frame number of every record appended
    exit_path,        \* history: how the loop was left, "none" before
    cev               \* the input of the last loop iteration

cvars == <<video, cpc, pending, total_frames, feature_history,
           prev_features, processed_frames, clock, snapshot, calls_log,
           appended_at, exit_path, cev>>

\* Bound of the collector: the frames the video source holds.
NumFrames == 3

\* fixed_track_id, and the identifiers the tracker itself hands out.
PrimaryTrack == 0
NativeTracks == {1, 2}
TrackIds == {PrimaryTrack} \cup NativeTracks

\* The value of cev outside the loop body.
NoInput ==
    [frame |-> [ret |-> FALSE, track_raises |-> FALSE, ids_none |-> TRUE,
                kpts_none |-> TRUE, dets |-> <<>>],
     dt |-> 0, ctl |-> "idle"]

\* DataCollector.__init__ and the locals of collect_data before the loop.
CollectorInit ==
    /\ video = "None"
    /\ cpc = "start"
    /\ pending = "none"
    /\ total_frames = 0
    /\ feature_history = [k \in TrackIds |-> <<>>]
    /\ prev_features = [k \in TrackIds |-> <<>>]
    /\ processed_frames = 0
    /\ clock = 0
    /\ snapshot = <<>>
    /\ calls_log = <<>>
    /\ appended_at = <<>>
    /\ exit_path = "none"
    /\ cev = NoInput

---------------------------------------------------------------------------
\* Client -> server messages: the text of a websocket message, by what
\* json.loads and data.get('action') make of it.
StartMsg    == [kind |-> "object",  has_action |-> TRUE,  action |-> "start"]
StopMsg     == [kind |-> "object",  has_action |-> TRUE,  action |-> "stop"]
DanceMsg    == [kind |-> "object",  has_action |-> TRUE,  action |-> "dance"]
NoActionMsg == [kind |-> "object",  has_action |-> FALSE, action |-> ""]
ArrayMsg    == [kind |-> "array",   has_action |-> FALSE, action |-> ""]
NotJsonMsg  == [kind |-> "invalid", has_action |-> FALSE, action |-> ""]

ClientMessages ==
    {StartMsg, StopMsg, DanceMsg, NoActionMsg, ArrayMsg, NotJsonMsg}

NoEvent == [op |-> "none", conn |-> 0, msg |-> NotJsonMsg, stopped |-> FALSE]
DispatchEvent(c, m) ==
    [op |-> "dispatch", conn |-> c, msg |-> m, stopped |-> FALSE]
StreamEvent(t) ==
    [op |-> "stream", conn |-> t.ws, msg |-> NotJsonMsg, stopped |-> t.stopped]

\* Server -> client messages.
InfoMsg     == [type |-> "info",     message |-> "Connected to Video Processor"]
StartedMsg  == [type |-> "response", message |-> "Camera streaming started"]
StoppedMsg  == [type |-> "response", message |-> "Camera streaming stopped"]
InvalidMsg  == [type |-> "error",    message |-> "Invalid JSON format"]
FrameMsg    == [type |-> "frame",    message |-> "jpg_as_text"]
NoMsg       == [type |-> "",         message |-> ""]

\* str(command) as the f-string of the error reply renders it.
PyStr(command) == IF command.isNone THEN "None" ELSE command.s

UnknownMsg(command) ==
    [type |-> "error", message |-> "Unknown command: " \o PyStr(command)]

\* One call on the outside world.
SendEffect(c, m) == [call |-> "send", to |-> c, msg |-> m]
CallEffect(name) == [call |-> name,   to |-> 0, msg |-> NoMsg]

---------------------------------------------------------------------------
\* json.loads(message): JSONDecodeError for text that is not JSON.
json_loads(m) == [raised |-> m.kind = "invalid", data |-> m]

\* data.get('action'): AttributeError when data is not a dict, None when the
\* key is missing.
data_get_action(data) ==
    IF data.kind # "object"
    THEN [raised |-> TRUE,  isNone |-> TRUE,  s |-> ""]
    ELSE IF data.has_action
         THEN [raised |-> FALSE, isNone |-> FALSE, s |-> data.action]
         ELSE [raised |-> FALSE, isNone |-> TRUE,  s |-> ""]

\* VideoProcessor.initialize_camera; ok is what isOpened() answers for the
\* VideoCapture just built.
initialize_camera(cam, ok) ==
    IF cam = "None"
    THEN IF ok
         THEN [camera |-> "opened",   raised |-> FALSE,
               calls |-> <<CallEffect("VideoCapture: opened")>>]
         ELSE [camera |-> "unopened", raised |-> TRUE,
               calls |-> <<CallEffect("VideoCapture: not opened")>>]
    ELSE [camera |-> cam, raised |-> FALSE, calls |-> <<>>]

\* Mutant of release_camera: release() is called, the field is not reset.
release_camera_keeps_handle(cam) ==
    IF cam # "None"
    THEN [camera |-> cam, calls |-> <<CallEffect("release")>>]
    ELSE [camera |-> cam, calls |-> <<>>]

\* VideoProcessor.release_camera
release_camera(cam) ==
    IF cam # "None"
    THEN [camera |-> "None", calls |-> <<CallEffect("release")>>]
    ELSE [camera |-> cam,    calls |-> <<>>]

\* VideoProcessor.get_frame: None without a camera or when read() fails.
get_frame(cam, ret) ==
    IF cam = "None"
    THEN [frame |-> FALSE, calls |-> <<>>]
    ELSE IF cam = "opened" /\ ret
         THEN [frame |-> TRUE,  calls |-> <<CallEffect("read")>>]
         ELSE [frame |-> FALSE, calls |-> <<CallEffect("read")>>]

\* websocket.send: writes the message, or raises ConnectionClosed.
websocket_send(c, m) ==
    IF conn[c] = "open"
    THEN [raised |-> "none", effects |-> <<SendEffect(c, m)>>]
    ELSE [raised |-> "ConnectionClosed", effects |-> <<>>]

---------------------------------------------------------------------------
\* What one call of handle_message leaves behind: the two fields of the
\* processor, whether a stream_camera task was created, the calls made, the
\* exception that escapes ("none" if none).
Outcome(streaming, cam, spawn, eff, raised) ==
    [is_streaming |-> streaming, camera |-> cam, spawn |-> spawn,
     effects |-> eff, raised |-> raised]

\* Mutant of handle_start: the active flag is not set.
handle_start_flag_unset(c, ok) ==
    IF ~is_streaming
    THEN LET ic == initialize_camera(camera, ok) IN
         IF ic.raised
         THEN Outcome(is_streaming, ic.camera, FALSE, ic.calls, "RuntimeError")
         ELSE LET s == websocket_send(c, StartedMsg) IN
              Outcome(FALSE, ic.camera, TRUE,
                      ic.calls \o <<CallEffect("create_task")>> \o s.effects,
                      s.raised)
    ELSE Outcome(is_streaming, camera, FALSE, <<>>, "none")

\* Mutant of handle_start: the test of the active flag is missing.
handle_start_unguarded(c, ok) ==
    LET ic == initialize_camera(camera, ok) IN
    IF ic.raised
    THEN Outcome(is_streaming, ic.camera, FALSE, ic.calls, "RuntimeError")
    ELSE LET s == websocket_send(c, StartedMsg) IN
         Outcome(TRUE, ic.camera, TRUE,
                 ic.calls \o <<CallEffect("create_task")>> \o s.effects,
                 s.raised)

\* handle_message, command == 'start'
handle_start(c, ok) ==
    IF ~is_streaming
    THEN LET ic == initialize_camera(camera, ok) IN
         IF ic.raised
         THEN Outcome(is_streaming, ic.camera, FALSE, ic.calls, "RuntimeError")
         ELSE LET s == websocket_send(c, StartedMsg) IN
              Outcome(TRUE, ic.camera, TRUE,
                      ic.calls \o <<CallEffect("create_task")>> \o s.effects,
                      s.raised)
    ELSE Outcome(is_streaming, camera, FALSE, <<>>, "none")

\* Mutant of handle_stop: the capture handle is not released.
handle_stop_keeps_camera(c) ==
    LET s == websocket_send(c, StoppedMsg) IN
    Outcome(FALSE, camera, FALSE, s.effects, s.raised)

\* handle_message, command == 'stop'
handle_stop(c) ==
    LET rc == release_camera(camera)
        s  == websocket_send(c, StoppedMsg)
    IN  Outcome(FALSE, rc.camera, FALSE, rc.calls \o s.effects, s.raised)

\* Mutant of handle_unknown: the reply does not name the command.
handle_unknown_unnamed(c, command) ==
    LET s == websocket_send(c, [type |-> "error", message |-> "Unknown command"])
    IN  Outcome(is_streaming, camera, FALSE, s.effects, s.raised)

\* handle_message, any other command
handle_unknown(c, command) ==
    LET s == websocket_send(c, UnknownMsg(command)) IN
    Outcome(is_streaming, camera, FALSE, s.effects, s.raised)

\* handle_message, except json.JSONDecodeError
handle_invalid_json(c) ==
    LET s == websocket_send(c, InvalidMsg) IN
    Outcome(is_streaming, camera, FALSE, s.effects, s.raised)

\* VideoProcessor.handle_message
handle_message(c, m, ok) ==
    LET j == json_loads(m) IN
    IF j.raised
    THEN handle_invalid_json(c)
    ELSE LET command == data_get_action(j.data) IN
         IF command.raised
         THEN Outcome(is_streaming, camera, FALSE, <<>>, "AttributeError")
         ELSE IF ~command.isNone /\ command.s = "start"
              THEN handle_start(c, ok)
              ELSE IF ~command.isNone /\ command.s = "stop"
                   THEN handle_stop(c)
                   ELSE handle_unknown(c, command)

\* Mutant of finally_block: the active flag is not cleared.
finally_block_keeps_flag(cam) ==
    LET rc == release_camera(cam) IN
    [is_streaming |-> is_streaming, camera |-> rc.camera, calls |-> rc.calls]

\* handle_connection, the finally block
finally_block(cam) ==
    LET rc == release_camera(cam) IN
    [is_streaming |-> FALSE, camera |-> rc.camera, calls |-> rc.calls]

---------------------------------------------------------------------------
\* The tasks of the event loop that run stream_camera.
TaskCount == BagCardinality(task)

TaskStates == BagToSet(task)

NewTask(c) == [pc |-> "sleeping", ws |-> c, stopped |-> FALSE]

\* asyncio.create_task(self.stream_camera(websocket))
create_task(c) == task (+) SetToBag({NewTask(c)})

\* Task t leaves state t for state u; it ends when u is not given.
MoveTask(t, u) == (task (-) SetToBag({t})) (+) SetToBag({u})

EndTask(t) == task (-) SetToBag({t})

\* History: a stop command was handled while these tasks were alive.
MarkStopped(b) ==
    LET marked == {[t EXCEPT !.stopped = TRUE] : t \in BagToSet(b)} IN
    [u \in marked |->
        CopiesIn(u, b) + CopiesIn([u EXCEPT !.stopped = FALSE], b)]

IsStop(m) == m.kind = "object" /\ m.has_action /\ m.action = "stop"

\* The handler of connection c ends: the finally block runs and the server
\* closes the connection.
Finish(c, cam, eff) ==
    LET f == finally_block(cam) IN
    /\ is_streaming' = f.is_streaming
    /\ camera' = f.camera
    /\ effects' = eff \o f.calls
    /\ pc' = [pc EXCEPT ![c] = "done"]
    /\ conn' = [conn EXCEPT ![c] = "closed"]

Init ==
    /\ camera = "None"
    /\ is_streaming = FALSE
    /\ conn = [c \in Conns |-> "init"]
    /\ pc = [c \in Conns |-> "init"]
    /\ task = EmptyBag
    /\ ev = NoEvent
    /\ effects = <<>>
    /\ CollectorInit

\* websockets.serve calls handle_connection for a new connection, which sends
\* the greeting.
Accept(c) ==
    /\ pc[c] = "init"
    /\ \A d \in Conns : d < c => pc[d] # "init"
    /\ conn' = [conn EXCEPT ![c] = "open"]
    /\ pc' = [pc EXCEPT ![c] = "recv"]
    /\ effects' = <<SendEffect(c, InfoMsg)>>
    /\ ev' = NoEvent
    /\ UNCHANGED <<camera, is_streaming, task>>

\* async for message in websocket: message m, sent by the client while the
\* connection was open, is received and dispatched; ok is what isOpened()
\* would answer in this step.
Dispatch(c, m, ok) ==
    /\ pc[c] = "recv"
    /\ LET r == handle_message(c, m, ok)
           b == IF IsStop(m) THEN MarkStopped(task) ELSE task
       IN  /\ r.spawn => TaskCount < MaxTasks
           /\ ev' = DispatchEvent(c, m)
           /\ task' = IF r.spawn THEN create_task(c) ELSE b
           /\ IF r.raised # "none"
              THEN Finish(c, r.camera, r.effects)
              ELSE /\ is_streaming' = r.is_streaming
                   /\ camera' = r.camera
                   /\ effects' = r.effects
                   /\ pc' = pc
                   /\ conn' = conn

\* The connection is closed and nothing is left to dispatch: the pending
\* websocket.send raises ConnectionClosed, or the async for ends or raises
\* ConnectionClosed.
RecvClosed(c) ==
    /\ pc[c] = "recv"
    /\ conn[c] = "closed"
    /\ Finish(c, camera, <<>>)
    /\ ev' = NoEvent
    /\ UNCHANGED task

\* Mutant of StreamStep: the loop clears the active flag when it breaks on
\* ConnectionClosed.
StreamStep_clears_flag(t, ret) ==
    /\ t.pc = "sleeping"
    /\ ev' = StreamEvent(t)
    /\ IF ~is_streaming
       THEN /\ task' = EndTask(t)
            /\ effects' = <<>>
            /\ is_streaming' = is_streaming
       ELSE LET g == get_frame(camera, ret)
                s == websocket_send(t.ws, FrameMsg)
            IN  IF ~g.frame
                THEN /\ task' = task
                     /\ effects' = g.calls
                     /\ is_streaming' = is_streaming
                ELSE IF s.raised # "none"
                     THEN /\ task' = EndTask(t)
                          /\ effects' = g.calls
                          /\ is_streaming' = FALSE
                     ELSE /\ task' = MoveTask(t, [t EXCEPT !.pc = "sending"])
                          /\ effects' = g.calls \o s.effects
                          /\ is_streaming' = is_streaming
    /\ UNCHANGED <<camera, conn, pc>>

\* stream_camera: a task is scheduled (for the first time, or after its
\* sleep) and runs from the loop test to its next suspension point; ret is
\* what camera.read() answers.
StreamStep(t, ret) ==
    /\ t.pc = "sleeping"
    /\ ev' = StreamEvent(t)
    /\ IF ~is_streaming
       THEN /\ task' = EndTask(t)
            /\ effects' = <<>>
       ELSE LET g == get_frame(camera, ret)
                s == websocket_send(t.ws, FrameMsg)
            IN  IF ~g.frame
                THEN /\ task' = task
                     /\ effects' = g.calls
                ELSE IF s.raised # "none"
                     THEN /\ task' = EndTask(t)
                          /\ effects' = g.calls
                     ELSE /\ task' = MoveTask(t, [t EXCEPT !.pc = "sending"])
                          /\ effects' = g.calls \o s.effects
    /\ UNCHANGED <<camera, is_streaming, conn, pc>>

\* stream_camera: the await of websocket.send returns, the task sleeps.
StreamSendReturns(t) ==
    /\ t.pc = "sending"
    /\ task' = MoveTask(t, [t EXCEPT !.pc = "sleeping"])
    /\ effects' = <<>>
    /\ ev' = NoEvent
    /\ UNCHANGED <<camera, is_streaming, conn, pc>>

\* stream_camera: the await of websocket.send raises ConnectionClosed: break.
StreamSendRaises(t) ==
    /\ t.pc = "sending"
    /\ conn[t.ws] = "closed"
    /\ task' = EndTask(t)
    /\ effects' = <<>>
    /\ ev' = NoEvent
    /\ UNCHANGED <<camera, is_streaming, conn, pc>>

\* The client closes the connection, or the connection is lost.
ClientClose(c) ==
    /\ conn[c] = "open"
    /\ conn' = [conn EXCEPT ![c] = "closed"]
    /\ effects' = <<>>
    /\ ev' = NoEvent
    /\ UNCHANGED <<camera, is_streaming, pc, task>>

\* isOpened() is asked only by a start command.
Answers(m) == IF m = StartMsg THEN BOOLEAN ELSE {TRUE}

Next ==
    \/ \E c \in Conns : Accept(c) /\ UNCHANGED cvars
    \/ \E c \in Conns, m \in ClientMessages :
           \E ok \in Answers(m) : Dispatch(c, m, ok) /\ UNCHANGED cvars
    \/ \E c \in Conns : RecvClosed(c) /\ UNCHANGED cvars
    \/ \E t \in TaskStates, ret \in BOOLEAN :
           StreamStep(t, ret) /\ UNCHANGED cvars
    \/ \E t \in TaskStates : StreamSendReturns(t) /\ UNCHANGED cvars
    \/ \E t \in TaskStates : StreamSendRaises(t) /\ UNCHANGED cvars
    \/ \E c \in Conns : ClientClose(c) /\ UNCHANGED cvars

Spec == Init /\ [][Next]_vars

---------------------------------------------------------------------------
\* Properties of the streaming session (VideoProcessor) and of the
\* connection handler.

\* The messages a step wrote to connection c, and its calls of one name.
Sends(eff, c) == SelectSeq(eff, LAMBDA e : e.call = "send" /\ e.to = c)
Calls(eff, name) == SelectSeq(eff, LAMBDA e : e.call = name)
FrameSends(eff, c) ==
    SelectSeq(eff, LAMBDA e : e.call = "send" /\ e.to = c /\ e.msg.type = "frame")
AllSends(eff) == SelectSeq(eff, LAMBDA e : e.call = "send")

\* The step dispatches message m of connection c to handle_message.
Handled(c, m) == ev' = DispatchEvent(c, m)

Streaming == is_streaming
Idle == ~is_streaming

\* C1: a start command handled while Idle, on an open connection, with a
\* capture device that opens: the session is Streaming, the capture handle is
\* held, exactly one stream_camera task is created (for this connection) and
\* exactly one message, the "response" acknowledgement, is sent.
C1_StartFromIdle ==
    [][\A c \in Conns :
        (Handled(c, StartMsg) /\ Idle /\ conn[c] = "open")
        => /\ Len(Calls(effects', "VideoCapture: opened"))
              + Len(Calls(effects', "VideoCapture: not opened")) = 1
           /\ Calls(effects', "VideoCapture: opened") # <<>>
              => /\ is_streaming'
                 /\ camera' = "opened"
                 /\ task' = task (+) SetToBag({NewTask(c)})
                 /\ Len(Calls(effects', "create_task")) = 1
                 /\ AllSends(effects') = <<SendEffect(c, StartedMsg)>>
                 /\ StartedMsg.type = "response"
      ]_vars

C1_Witness ==
    \E c \in Conns :
        /\ ev = DispatchEvent(c, StartMsg)
        /\ effects = <<CallEffect("VideoCapture: opened"),
                       CallEffect("create_task"), SendEffect(c, StartedMsg)>>
        /\ is_streaming
        /\ camera = "opened"
        /\ TaskCount = 1

\* C2: a start command handled while Streaming, on an open connection, is
\* answered by one "response" acknowledgement.
C2_StartWhileStreamingAcknowledged ==
    [][\A c \in Conns :
        (Handled(c, StartMsg) /\ Streaming /\ conn[c] = "open")
        => /\ Len(Sends(effects', c)) = 1
           /\ Sends(effects', c)[1].msg.type = "response"
      ]_vars

\* C3: a start command handled while Streaming changes nothing of the
\* session: no VideoCapture is built, the handle held stays the one held, no
\* task is created.
C3_StartWhileStreamingNoop ==
    [][\A c \in Conns :
        (Handled(c, StartMsg) /\ Streaming)
        => /\ is_streaming'
           /\ camera' = camera
           /\ task' = task
           /\ Calls(effects', "VideoCapture: opened") = <<>>
           /\ Calls(effects', "VideoCapture: not opened") = <<>>
           /\ Calls(effects', "release") = <<>>
           /\ Calls(effects', "create_task") = <<>>
      ]_vars

C3_Witness ==
    \E c \in Conns :
        /\ ev = DispatchEvent(c, StartMsg)
        /\ effects = <<>>
        /\ is_streaming
        /\ camera = "opened"
        /\ TaskCount >= 1
        /\ pc[c] = "recv"

\* C4: a stop command handled while Streaming clears the flag and releases
\* the capture handle in the same step (before the handler suspends), and on
\* an open connection sends exactly one message, the "response"
\* acknowledgement; and no step that begins Idle sends a frame, so that from
\* the stop until a later start no frame is sent.
C4_StopFromStreaming ==
    /\ [][\A c \in Conns :
            (Handled(c, StopMsg) /\ Streaming)
            => /\ ~is_streaming'
               /\ camera' = "None"
               /\ Len(Calls(effects', "release")) = 1
               /\ conn[c] = "open"
                  => /\ AllSends(effects') = <<SendEffect(c, StoppedMsg)>>
                     /\ StoppedMsg.type = "response"
         ]_vars
    /\ [][Idle => \A c \in Conns : FrameSends(effects', c) = <<>>]_vars

C4_Witness ==
    \E c \in Conns :
        /\ ev = DispatchEvent(c, StopMsg)
        /\ effects = <<CallEffect("release"), SendEffect(c, StoppedMsg)>>
        /\ ~is_streaming
        /\ camera = "None"
        /\ \E t \in TaskStates : t.ws = c /\ t.stopped

\* C5: a stream_camera task that was alive when a stop command was handled
\* ends the next time it is scheduled at its loop test (its wake-up from the
\* sleep), whatever was handled in between.
C5_StoppedTaskEndsAtWakeup ==
    [][(ev'.op = "stream" /\ ev'.stopped) => TaskCount' = TaskCount - 1]_vars

\* C6: a start command handled while Idle, on an open connection, whose
\* capture device does not open: an "error" message is sent to the client,
\* the session is Idle with no handle held, and the handler goes on serving
\* the open connection.
C6_OpenFailureSurfaced ==
    [][\A c \in Conns :
        (/\ Handled(c, StartMsg) /\ Idle /\ conn[c] = "open"
         /\ Calls(effects', "VideoCapture: not opened") # <<>>)
        => /\ \E i \in DOMAIN Sends(effects', c) :
                  Sends(effects', c)[i].msg.type = "error"
           /\ ~is_streaming'
           /\ camera' = "None"
           /\ pc'[c] = "recv"
           /\ conn'[c] = "open"
      ]_vars

\* C7: when a connection handler finishes, by whatever path, the active flag
\* is False and no capture handle is held; and no message is sent on the
\* connection of a finished handler.
C7_TeardownOnFinish ==
    /\ [][\A c \in Conns :
            (pc[c] # "done" /\ pc'[c] = "done")
            => ~is_streaming' /\ camera' = "None"
         ]_vars
    /\ [][\A c \in Conns : pc[c] = "done" => Sends(effects', c) = <<>>]_vars

C7_Witness ==
    \E c \in Conns :
        /\ pc[c] = "done"
        /\ ev = DispatchEvent(c, ArrayMsg)
        /\ effects = <<CallEffect("release")>>
        /\ ~is_streaming
        /\ camera = "None"
        /\ \E t \in TaskStates : t.ws = c

\* C8: every connection has a session of its own: the session a new
\* connection meets is Idle with no handle held, and while another
\* connection is served, a step of this connection's handler changes neither
\* the active flag nor the capture handle.
C8_SessionPerConnection ==
    /\ [][\A c \in Conns :
            (pc[c] = "init" /\ pc'[c] = "recv")
            => ~is_streaming' /\ camera' = "None"
         ]_vars
    /\ [][\A c, d \in Conns :
            (/\ c # d
             /\ pc[d] = "recv" /\ conn[d] = "open"
             /\ \/ ev'.op = "dispatch" /\ ev'.conn = c
                \/ pc[c] = "recv" /\ pc'[c] = "done")
            => is_streaming' = is_streaming /\ camera' = camera
         ]_vars

\* C9: a command object whose action is neither start nor stop, handled on an
\* open connection in either state, gets exactly one message, the "error"
\* reply "Unknown command: <action>", and the active flag, the capture handle
\* and the tasks are unchanged.
C9_UnknownCommand ==
    [][\A c \in Conns :
        /\ (Handled(c, DanceMsg) /\ conn[c] = "open")
           => /\ effects' = <<SendEffect(c, [type |-> "error",
                                message |-> "Unknown command: dance"])>>
              /\ UNCHANGED <<is_streaming, camera, task>>
        /\ (Handled(c, NoActionMsg) /\ conn[c] = "open")
           => /\ effects' = <<SendEffect(c, [type |-> "error",
                                message |-> "Unknown command: None"])>>
              /\ UNCHANGED <<is_streaming, camera, task>>
      ]_vars

C9_Witness ==
    \E c \in Conns :
        /\ ev = DispatchEvent(c, DanceMsg)
        /\ effects = <<SendEffect(c, [type |-> "error",
                         message |-> "Unknown command: dance"])>>
        /\ is_streaming
        /\ camera = "opened"
        /\ TaskCount >= 1
        /\ pc[c] = "recv"

\* C10: a malformed or unrecognized message (not JSON, JSON that is not an
\* object, an object without action or with an unknown action), handled on an
\* open connection, is answered by one "error" message, changes nothing of
\* the session, and the handler goes on receiving.
C10_MalformedAnswered ==
    [][\A c \in Conns :
        \A m \in {NotJsonMsg, ArrayMsg, NoActionMsg, DanceMsg} :
            (Handled(c, m) /\ conn[c] = "open")
            => /\ Len(Sends(effects', c)) = 1
               /\ Sends(effects', c)[1].msg.type = "error"
               /\ UNCHANGED <<is_streaming, camera, task>>
               /\ pc'[c] = "recv"
               /\ conn'[c] = "open"
      ]_vars

\* C16: in every state (each is a suspension point of every coroutine: the
\* handlers wait on send or receive, the tasks on send or sleep) a capture
\* handle is held exactly when the active flag is True, and the handle held is
\* an opened one.
C16_HandleIffStreaming ==
    /\ camera \in {"None", "opened"}
    /\ (camera # "None") <=> is_streaming

\* A start whose camera did not open has just ended its handler.
C16_Witness ==
    \E c \in Conns :
        /\ ev = DispatchEvent(c, StartMsg)
        /\ effects = <<CallEffect("VideoCapture: not opened"),
                       CallEffect("release")>>
        /\ pc[c] = "done"
        /\ camera = "None"
        /\ ~is_streaming
        /\ \E d \in Conns : pc[d] = "recv"

\* C17: a step of a stream_camera task writes neither the active flag nor the
\* capture handle, reads a frame only from the handle the processor holds
\* (one that was not released), and sends a frame only in an iteration that
\* began with the active flag True.
C17_PushLoopOnlyReads ==
    [][(ev'.op = "stream" \/ (task' # task /\ ev'.op = "none"))
        => /\ UNCHANGED <<camera, is_streaming>>
           /\ Calls(effects', "read") # <<>> => camera = "opened"
           /\ (\E c \in Conns : FrameSends(effects', c) # <<>>)
              => /\ is_streaming
                 /\ Calls(effects', "read") # <<>>
      ]_vars

\* A task scheduled right after a stop was handled: it reads nothing and ends.
C17_Witness ==
    /\ ev.op = "stream"
    /\ ev.stopped
    /\ effects = <<>>
    /\ ~is_streaming
    /\ camera = "None"
    /\ \E c \in Conns : pc[c] = "recv" /\ conn[c] = "open"

\* C18: at most one stream_camera task of a connection is alive at any time.
C18_OnePushLoop ==
    \A c \in Conns :
        BagCardinality([t \in {u \in TaskStates : u.ws = c} |->
                            CopiesIn(t, task)]) <= 1

---------------------------------------------------------------------------
(***************************************************************************)
(* DataCollector (collect_data.py).  Coordinates are integers; time is     *)
(* counted in ticks of 0.05 s, so that max_time_gap = 0.1 s is 2 ticks.    *)
(* A quotient of two floats is kept as the fraction in lowest terms.       *)
(***************************************************************************)

\* max_time_gap = 0.1, in ticks.
MaxTimeGap == 2

\* What time.time() may have advanced by since it was last read.
TimeSteps == {0, 2, 3}

Abs(n) == IF n < 0 THEN -n ELSE n

RECURSIVE GCD(_, _)
GCD(a, b) == IF b = 0 THEN a ELSE GCD(b, a % b)

\* a / b for b # 0.
Quotient(a, b) ==
    LET g == GCD(Abs(a), Abs(b))
        sgn == IF b < 0 THEN -1 ELSE 1
    IN  [num |-> sgn * (a \div g), den |-> sgn * (b \div g)]

\* The number 0 the code stores when it computes no derivative.
Zero == [num |-> 0, den |-> 1]

\* np.degrees(np.arctan2(y, x)), for the directions that are multiples of
\* 45 degrees; the result is in (-180, 180].
Atan2Deg(y, x) ==
    CASE x > 0 /\ y = 0  -> 0
      [] x > 0 /\ y = x  -> 45
      [] x = 0 /\ y > 0  -> 90
      [] x < 0 /\ y = -x -> 135
      [] x < 0 /\ y = 0  -> 180
      [] x < 0 /\ y = x  -> -135
      [] x = 0 /\ y < 0  -> -90
      [] x > 0 /\ y = -x -> -45
      [] x = 0 /\ y = 0  -> 0

\* DataCollector.calculate_features: unpacking keypoints[:3] into three names
\* raises ValueError unless it holds three points.  The mean of the two
\* segment vectors is their sum halved, and arctan2 of the sum is the same.
calculate_features(keypoints, now) ==
    LET first3 == SubSeq(keypoints, 1, IF Len(keypoints) < 3
                                       THEN Len(keypoints) ELSE 3)
    IN  IF Len(first3) # 3
        THEN [raised |-> "ValueError", has |-> FALSE,
              features |-> [timestamp |-> now]]
        ELSE LET head  == first3[1]
                 heart == first3[2]
                 tail  == first3[3]
                 sum_x == (heart[1] - head[1]) + (tail[1] - heart[1])
                 sum_y == (heart[2] - head[2]) + (tail[2] - heart[2])
             IN  [raised |-> "none", has |-> TRUE,
                  features |->
                    [head_x |-> head[1], head_y |-> head[2],
                     heart_x |-> heart[1], heart_y |-> heart[2],
                     body_orientation |-> Atan2Deg(sum_y, sum_x),
                     timestamp |-> now]]

NoDerivatives ==
    [velocity_x |-> Zero, velocity_y |-> Zero, angular_velocity |-> Zero]

\* Mutant of derivatives: the velocities are taken from the head, not the
\* heart.
derivatives_of_head(features, prev) ==
    IF prev # <<>>
    THEN LET time_diff == features.timestamp - prev[1].timestamp IN
         IF time_diff <= MaxTimeGap
         THEN IF time_diff = 0
              THEN [raised |-> "ZeroDivisionError", features |-> features]
              ELSE [raised |-> "none", features |->
                     [velocity_x |->
                        Quotient(features.head_x - prev[1].head_x, time_diff),
                      velocity_y |->
                        Quotient(features.head_y - prev[1].head_y, time_diff),
                      angular_velocity |->
                        Quotient(features.body_orientation
                                   - prev[1].body_orientation, time_diff)]
                     @@ features]
         ELSE [raised |-> "none", features |-> NoDerivatives @@ features]
    ELSE [raised |-> "none", features |-> NoDerivatives @@ features]

\* collect_data, the update of features with the three derivatives; prev is
\* <<>> or <<the previous record of the track>>.  A float divided by 0.0
\* raises ZeroDivisionError.
derivatives(features, prev) ==
    IF prev # <<>>
    THEN LET time_diff == features.timestamp - prev[1].timestamp IN
         IF time_diff <= MaxTimeGap
         THEN IF time_diff = 0
              THEN [raised |-> "ZeroDivisionError", features |-> features]
              ELSE [raised |-> "none", features |->
                     [velocity_x |->
                        Quotient(features.heart_x - prev[1].heart_x, time_diff),
                      velocity_y |->
                        Quotient(features.heart_y - prev[1].heart_y, time_diff),
                      angular_velocity |->
                        Quotient(features.body_orientation
                                   - prev[1].body_orientation, time_diff)]
                     @@ features]
         ELSE [raised |-> "none", features |-> NoDerivatives @@ features]
    ELSE [raised |-> "none", features |-> NoDerivatives @@ features]

\* confidences.argmax(): the first index of the greatest confidence.
argmax(dets) ==
    CHOOSE i \in DOMAIN dets :
        /\ \A j \in DOMAIN dets : dets[j].conf <= dets[i].conf
        /\ \A j \in DOMAIN dets : dets[j].conf = dets[i].conf => i <= j

\* Mutant of fixed_track_id: the record is filed under the tracker's own id.
fixed_track_id_native(det) == det.id

\* fixed_track_id = 0, whatever the tracker called the detection.
fixed_track_id(det) == PrimaryTrack

\* The `if` of line 81 and the `if` of line 87: the frame has track ids,
\* keypoints and at least one detection.
has_detection(frame) ==
    /\ ~frame.ids_none
    /\ ~frame.kpts_none
    /\ Len(frame.dets) > 0

\* Three keypoints around the heart h, lying along the direction d.
Kpts3(h, d) == <<<<h[1] - d[1], h[2] - d[2]>>, h, <<h[1] + d[1], h[2] + d[2]>>>>

Det(id, conf, kpts) == [id |-> id, conf |-> conf, kpts |-> kpts]

\* What video.read() and model.track() give for one frame.
Result(ids_none, kpts_none, dets) ==
    [ret |-> TRUE, track_raises |-> FALSE, ids_none |-> ids_none,
     kpts_none |-> kpts_none, dets |-> dets]

\* video.read() returns ret = False.
EofFrame ==
    [ret |-> FALSE, track_raises |-> FALSE, ids_none |-> TRUE,
     kpts_none |-> TRUE, dets |-> <<>>]

\* model.track() raises.
InferenceErrorFrame ==
    [ret |-> TRUE, track_raises |-> TRUE, ids_none |-> TRUE,
     kpts_none |-> TRUE, dets |-> <<>>]

NoIdsFrame == Result(TRUE, FALSE, <<>>)
NoKeypointsFrame == Result(FALSE, TRUE, <<>>)
EmptyFrame == Result(FALSE, FALSE, <<>>)

\* One detection heading 135 degrees, one heading -135 degrees.
FrameA == Result(FALSE, FALSE, <<Det(1, 9, Kpts3(<<0, 0>>, <<-1, 1>>))>>)
FrameB == Result(FALSE, FALSE, <<Det(1, 9, Kpts3(<<2, 1>>, <<-1, -1>>))>>)

\* Two detections; the second is the more confident one.
FrameTwo ==
    Result(FALSE, FALSE, <<Det(1, 5, Kpts3(<<0, 0>>, <<-1, -1>>)),
                           Det(2, 9, Kpts3(<<2, 1>>, <<-1, 1>>))>>)

\* One detection for which the model supplies two keypoints only.
ShortFrame == Result(FALSE, FALSE, <<Det(1, 9, <<<<0, 0>>, <<1, 1>>>>)>>)

PlainFrames == {NoIdsFrame, NoKeypointsFrame, EmptyFrame}
DetectionFrames == {FrameA, FrameB, FrameTwo, ShortFrame}

\* What cv2.waitKey and the terminal do during one iteration: nothing, the
\* key q, Ctrl-C during inference, Ctrl-C while the frame is shown.
Controls == {"none", "q", "interrupt_early", "interrupt_late"}

Input(frame, dt, ctl) == [frame |-> frame, dt |-> dt, ctl |-> ctl]

\* The environment of one loop iteration.
Inputs ==
    {Input(EofFrame, 0, "none"), Input(InferenceErrorFrame, 0, "none")}
    \cup {Input(f, 0, "none") : f \in PlainFrames}
    \cup {Input(NoIdsFrame, 0, c) : c \in Controls}
    \cup {Input(f, dt, "none") : f \in DetectionFrames, dt \in TimeSteps}
    \cup {Input(FrameA, MaxTimeGap, c) : c \in Controls}

\* DataCollector.initialize_video, called by collect_data outside its try
\* statement; n is the frame count the file reports.
InitializeVideo(ok, n) ==
    /\ cpc = "start"
    /\ IF ok
       THEN /\ video' = "opened"
            /\ total_frames' = n
            /\ cpc' = "loop"
            /\ UNCHANGED <<pending, exit_path>>
       ELSE /\ video' = "unopened"
            /\ pending' = "RuntimeError"
            /\ exit_path' = "open_failed"
            /\ cpc' = "raised"
            /\ UNCHANGED total_frames
    /\ cev' = NoInput
    /\ UNCHANGED <<feature_history, prev_features, processed_frames, clock,
                   snapshot, calls_log, appended_at>>

\* Leaving the while loop for the finally block.
Leave(path, exc) ==
    /\ cpc' = "finally"
    /\ exit_path' = path
    /\ pending' = exc

\* One pass through the body of `while True`.
LoopIteration(in) ==
    LET frame == in.frame
        det == frame.dets[argmax(frame.dets)]
        key == fixed_track_id(det)
        now == clock + in.dt
        cf == calculate_features(det.kpts, now)
        dv == derivatives(cf.features, prev_features[key])
        appends == has_detection(frame)
    IN
    /\ cpc = "loop"
    /\ frame.ret => processed_frames < NumFrames
    /\ cev' = in
    /\ UNCHANGED <<video, total_frames, snapshot, calls_log>>
    /\ IF ~frame.ret
       THEN /\ Leave("exhausted", "none")
            /\ UNCHANGED <<feature_history, prev_features, processed_frames,
                           clock, appended_at>>
       ELSE IF in.ctl = "interrupt_early"
       THEN /\ Leave("KeyboardInterrupt", "none")
            /\ UNCHANGED <<feature_history, prev_features, processed_frames,
                           clock, appended_at>>
       ELSE IF frame.track_raises
       THEN /\ Leave("inference", "RuntimeError")
            /\ UNCHANGED <<feature_history, prev_features, processed_frames,
                           clock, appended_at>>
       ELSE IF appends /\ cf.raised # "none"
       THEN /\ Leave("features", cf.raised)
            /\ UNCHANGED <<feature_history, prev_features, processed_frames,
                           clock, appended_at>>
       ELSE IF appends /\ dv.raised # "none"
       THEN /\ Leave("derivatives", dv.raised)
            /\ clock' = now
            /\ UNCHANGED <<feature_history, prev_features, processed_frames,
                           appended_at>>
       ELSE /\ IF appends
               THEN /\ clock' = now
                    /\ prev_features' =
                         [prev_features EXCEPT ![key] = <<dv.features>>]
                    /\ feature_history' =
                         [feature_history EXCEPT ![key] = Append(@, dv.features)]
                    /\ appended_at' = Append(appended_at, processed_frames + 1)
               ELSE UNCHANGED <<feature_history, prev_features, clock,
                                appended_at>>
            /\ processed_frames' = processed_frames + 1
            /\ IF total_frames = 0
               THEN Leave("progress", "ZeroDivisionError")
               ELSE IF in.ctl = "interrupt_late"
               THEN Leave("KeyboardInterrupt", "none")
               ELSE IF in.ctl = "q"
               THEN Leave("quit", "none")
               ELSE UNCHANGED <<cpc, exit_path, pending>>

\* DataCollector.save_data, first statement of the finally block; with ok
\* false the directory or the file cannot be written and it raises.
SaveData(ok) ==
    /\ cpc = "finally"
    /\ calls_log' = Append(calls_log, "save_data")
    /\ IF ok
       THEN /\ snapshot' = <<feature_history>>
            /\ cpc' = "cleanup"
            /\ UNCHANGED pending
       ELSE /\ pending' = "OSError"
            /\ cpc' = "raised"
            /\ UNCHANGED snapshot
    /\ cev' = NoInput
    /\ UNCHANGED <<video, total_frames, feature_history, prev_features,
                   processed_frames, clock, appended_at, exit_path>>

\* DataCollector.cleanup, second statement of the finally block; after it
\* collect_data returns, or the exception that ended the loop goes on.
Cleanup ==
    /\ cpc = "cleanup"
    /\ calls_log' = Append(calls_log, "cleanup")
    /\ video' = IF video # "None" THEN "released" ELSE video
    /\ cpc' = IF pending = "none" THEN "returned" ELSE "raised"
    /\ cev' = NoInput
    /\ UNCHANGED <<total_frames, pending, feature_history, prev_features,
                   processed_frames, clock, snapshot, appended_at, exit_path>>

CollectNext ==
    \/ \E ok \in BOOLEAN, n \in {0, NumFrames} :
           InitializeVideo(ok, n) /\ UNCHANGED vars
    \/ \E in \in Inputs : LoopIteration(in) /\ UNCHANGED vars
    \/ \E ok \in BOOLEAN : SaveData(ok) /\ UNCHANGED vars
    \/ Cleanup /\ UNCHANGED vars

CollectSpec == Init /\ [][CollectNext]_cvars

---------------------------------------------------------------------------
(***************************************************************************)
(* Properties of DataCollector.collect_data, checked under CollectSpec.    *)
(***************************************************************************)

History == feature_history[PrimaryTrack]

\* The keypoints of the detection the loop selects.
selected_kpts(frame) == frame.dets[argmax(frame.dets)].kpts

\* v, a fraction, is the quotient a / dt.
IsQuotient(v, a, dt) == v.den # 0 /\ v.num * dt = a * v.den

IsZero(v) == v.den # 0 /\ v.num = 0

Finished == cpc \in {"returned", "raised"}

\* C11: once the loop has been entered, every way of leaving it runs
\* save_data exactly once and then cleanup, and the snapshot persisted holds
\* every record appended before the exit.
C11_SaveThenCleanupOnEveryExit ==
    (Finished /\ exit_path \notin {"none", "open_failed"})
        => /\ calls_log = <<"save_data", "cleanup">>
           /\ snapshot = <<feature_history>>

\* C12: a frame whose selected detection has fewer than three keypoints is
\* skipped: nothing is appended, the previous record stays, the progress
\* counter advances and the loop goes on.
C12_ShortDetectionSkipped ==
    [][(/\ cpc = "loop"
        /\ total_frames # 0
        /\ cev'.ctl = "none"
        /\ has_detection(cev'.frame)
        /\ Len(selected_kpts(cev'.frame)) < 3)
       => /\ UNCHANGED <<feature_history, prev_features>>
          /\ processed_frames' = processed_frames + 1
          /\ cpc' = "loop"
      ]_cvars

ShortestDiff(a, b) ==
    LET d == (b - a) % 360 IN IF d > 180 THEN d - 360 ELSE d

\* C14: for two consecutive fresh records with orientations a and b,
\* angular_velocity * dt is the shortest signed angular difference from a
\* to b.
C14_ShortestAngularDifference ==
    \A i \in 2..Len(History) :
        LET r == History[i]
            p == History[i - 1]
            dt == r.timestamp - p.timestamp
        IN  (0 < dt /\ dt <= MaxTimeGap)
                => IsQuotient(r.angular_velocity,
                              ShortestDiff(p.body_orientation,
                                           r.body_orientation), dt)

\* C15: the history is append-only and in frame order: an iteration that
\* counts a frame with a tracked detection and keypoints appends exactly one
\* record to the primary track's sequence, any other step leaves the
\* sequence alone, and no record is stored under another track identifier.
C15_HistoryAppendOnly ==
    [][/\ \A k \in NativeTracks : feature_history'[k] = <<>>
       /\ Len(appended_at') = Len(History')
       /\ \A i, j \in 1..Len(History') :
              i < j => /\ appended_at'[i] < appended_at'[j]
                       /\ History'[i].timestamp <= History'[j].timestamp
       /\ IF /\ cpc = "loop"
             /\ processed_frames' = processed_frames + 1
             /\ has_detection(cev'.frame)
          THEN /\ Len(History') = Len(History) + 1
               /\ SubSeq(History', 1, Len(History)) = History
               /\ appended_at' = Append(appended_at, processed_frames')
          ELSE UNCHANGED <<feature_history, appended_at>>
      ]_cvars

\* Records of the first and the third frame, none of the second.
C15_Witness ==
    /\ cpc = "loop"
    /\ processed_frames = 3
    /\ appended_at = <<1, 3>>
    /\ Len(History) = 2
    /\ cev.frame = FrameTwo

\* C19: after collect_data has returned or raised, by any path, the capture
\* it created has been released by cleanup.
C19_ReleasedOnEveryPath ==
    Finished
        => /\ video \in {"None", "released"}
           /\ \E i \in DOMAIN calls_log : calls_log[i] = "cleanup"

\* C20: a detection frame stamped with the time of the previous record does
\* not end the loop: a record is appended and the loop goes on.
C20_ZeroTimeDifferenceTolerated ==
    [][(/\ cpc = "loop"
        /\ total_frames # 0
        /\ cev'.ctl = "none"
        /\ has_detection(cev'.frame)
        /\ Len(selected_kpts(cev'.frame)) >= 3
        /\ prev_features[PrimaryTrack] # <<>>
        /\ cev'.dt = 0)
       => /\ Len(History') = Len(History) + 1
          /\ cpc' = "loop"
      ]_cvars

===========================================================================
